---- MODULE Spec2Model ----
(***************************************************************************)
(* Model of pybasicbayes/distributions/regression.py: the Regression,      *)
(* RegressionNonconj and ARDRegression objects, their sufficient           *)
(* statistics, the standard/natural hyperparameter conversion, maximum     *)
(* likelihood and the Gibbs resampling steps.                              *)
(*                                                                         *)
(* Numbers are exact extended rationals <<n, d>>: n/d with d > 0 in lowest *)
(* terms, <<0,0>> for NaN, <<1,0>> for +inf and <<-1,0>> for -inf.         *)
(* Matrices are sequences of rows.  None is the empty tuple.               *)
(***************************************************************************)
EXTENDS Integers, Sequences, FiniteSets, TLC

VARIABLES
    inp,      \* arguments of the pure function under study
    out,      \* its result (None before it ran)
    self,     \* the model object: its attributes
    pc,       \* position of the call in progress ("idle" between calls)
    call,     \* locals of the call in progress
    hist      \* what the last call did (observations, not program state)

vars == <<inp, out, self, pc, call, hist>>

None == << <<>> >>

-----------------------------------------------------------------------------
(* Bounds of the model.                                                    *)

MaxRows == 3
MaxDatasets == 2
MaxRowsMissing == 2

-----------------------------------------------------------------------------
(* Extended rational arithmetic (numpy float64 arithmetic, made exact).    *)

NaN == <<0, 0>>
PInf == <<1, 0>>
NInf == <<-1, 0>>

Abs(x) == IF x < 0 THEN -x ELSE x

RECURSIVE GCD(_, _)
GCD(a, b) == IF b = 0 THEN a ELSE GCD(b, a % b)

Q(n, d) ==
    LET s == IF d < 0 THEN -1 ELSE 1
        g == GCD(Abs(n), Abs(d))
    IN  <<(s * n) \div g, (s * d) \div g>>

Num(i) == <<i, 1>>

isnan(x) == x = NaN
IsInf(x) == x[2] = 0 /\ x[1] # 0
IsFin(x) == x[2] # 0
Sgn(x) == IF x[1] > 0 THEN 1 ELSE IF x[1] < 0 THEN -1 ELSE 0

XNeg(x) == <<-x[1], x[2]>>

XAdd(x, y) ==
    IF isnan(x) \/ isnan(y) THEN NaN
    ELSE IF IsInf(x) /\ IsInf(y) THEN (IF x = y THEN x ELSE NaN)
    ELSE IF IsInf(x) THEN x
    ELSE IF IsInf(y) THEN y
    ELSE Q(x[1] * y[2] + y[1] * x[2], x[2] * y[2])

XSub(x, y) == XAdd(x, XNeg(y))

XMul(x, y) ==
    IF isnan(x) \/ isnan(y) THEN NaN
    ELSE IF IsInf(x) \/ IsInf(y)
         THEN (IF Sgn(x) * Sgn(y) = 0 THEN NaN
               ELSE <<Sgn(x) * Sgn(y), 0>>)
    ELSE Q(x[1] * y[1], x[2] * y[2])

\* x / y for finite x and finite y # 0
XDiv(x, y) == Q(x[1] * y[2], x[2] * y[1])

\* x < y for finite x, y
XLt(x, y) == x[1] * y[2] < y[1] * x[2]

-----------------------------------------------------------------------------
(* Vectors and matrices.                                                   *)

\* a sequence given by a rule, evaluated element by element
V(f) == f \o <<>>

RECURSIVE VSum(_)
VSum(v) == IF v = <<>> THEN Num(0) ELSE XAdd(VSum(SubSeq(v, 1, Len(v) - 1)), v[Len(v)])

Dot(u, v) == VSum(V([i \in 1..Len(u) |-> XMul(u[i], v[i])]))

zeros(r, c) == V([i \in 1..r |-> V([j \in 1..c |-> Num(0)])])
eye(n) == V([i \in 1..n |-> V([j \in 1..n |-> IF i = j THEN Num(1) ELSE Num(0)])])

NRows(M) == Len(M)
NCols(M) == IF Len(M) = 0 THEN 0 ELSE Len(M[1])

Col(M, j) == V([i \in 1..Len(M) |-> M[i][j]])
T(M) == V([j \in 1..NCols(M) |-> Col(M, j)])

MatAdd(M, N) == V([i \in 1..Len(M) |-> V([j \in 1..Len(M[i]) |-> XAdd(M[i][j], N[i][j])])])
MatSub(M, N) == V([i \in 1..Len(M) |-> V([j \in 1..Len(M[i]) |-> XSub(M[i][j], N[i][j])])])
MatScale(c, M) == V([i \in 1..Len(M) |-> V([j \in 1..Len(M[i]) |-> XMul(c, M[i][j])])])
MatDivScalar(M, c) == V([i \in 1..Len(M) |-> V([j \in 1..Len(M[i]) |-> XDiv(M[i][j], c)])])
dot(M, N) == V([i \in 1..Len(M) |-> V([j \in 1..NCols(N) |-> Dot(M[i], Col(N, j))])])

\* M[r1..r2, c1..c2]
Slice(M, r1, r2, c1, c2) ==
    V([i \in 1..(r2 - r1 + 1) |-> V([j \in 1..(c2 - c1 + 1) |-> M[r1 + i - 1][c1 + j - 1]])])

blockarray(TL, TR, BL, BR) ==
    V([i \in 1..(Len(TL) + Len(BL)) |->
        IF i <= Len(TL) THEN TL[i] \o TR[i]
        ELSE BL[i - Len(TL)] \o BR[i - Len(TL)]])

hstack(M, N) == V([i \in 1..Len(M) |-> M[i] \o N[i]])

-----------------------------------------------------------------------------
(* The model object's shape properties.                                    *)

\* NOTE: D_in includes the extra affine coordinate
D_in(obj) ==
    LET mat == IF obj.A # None THEN obj.A ELSE obj.natural_hypparam[2]
    IN  NCols(mat)

D_out(obj) ==
    LET mat == IF obj.A # None THEN obj.A ELSE obj.natural_hypparam[2]
    IN  NRows(mat)

-----------------------------------------------------------------------------
(* Sufficient statistics <<yyT, yxT, xxT, n>>.                             *)
(* A data argument is [isList, items]: a python list of matrices, or one   *)
(* matrix (items has one element).  A matrix is a sequence of rows of      *)
(* Width coordinates, the inputs first and the D_out outputs last.         *)

Width(obj) == (IF obj.affine THEN D_in(obj) - 1 ELSE D_in(obj)) + D_out(obj)

\* ~np.isnan(data).any(1): the rows kept
notnan_any_first(row) == ~ isnan(row[1])
notnan_any(row) == ~ \E j \in 1..Len(row) : isnan(row[j])

RECURSIVE good_rows(_, _)
good_rows(data, k) ==
    IF k = 0 THEN <<>>
    ELSE good_rows(data, k - 1) \o (IF notnan_any(data[k]) THEN <<k>> ELSE <<>>)

\* data[gi]
take(v, gi) == V([i \in 1..Len(gi) |-> v[gi[i]]])

\* data.T.dot(weights[:,na]*data)
statmat(data, weights, w) ==
    V([i \in 1..w |-> V([j \in 1..w |->
        VSum(V([r \in 1..Len(data) |-> XMul(data[r][i], XMul(weights[r], data[r][j]))]))])])

\* weights.dot(data), data.sum(0)
colsums(data, weights, w) ==
    V([j \in 1..w |-> VSum(V([r \in 1..Len(data) |-> XMul(weights[r], data[r][j])]))])

ones(k) == V([i \in 1..k |-> Num(1)])

\* the partition of statmat and the affine augmentation, lines 91-100, 112-121
assemble(obj, data, weights, n) ==
    LET w    == Width(obj)
        D    == D_out(obj)
        sm   == statmat(data, weights, w)
        xxT  == Slice(sm, 1, w - D, 1, w - D)
        yxT  == Slice(sm, w - D + 1, w, 1, w - D)
        yyT  == Slice(sm, w - D + 1, w, w - D + 1, w)
        xy   == colsums(data, weights, w)
        x    == SubSeq(xy, 1, w - D)
        y    == SubSeq(xy, w - D + 1, w)
    IN  IF obj.affine
        THEN <<yyT,
               hstack(yxT, V([i \in 1..D |-> <<y[i]>>])),
               blockarray(xxT, V([i \in 1..(w - D) |-> <<x[i]>>]), <<x>>, <<<<n>>>>),
               n>>
        ELSE <<yyT, yxT, xxT, n>>

empty_statistics_bad(obj) ==
    <<zeros(D_out(obj), D_out(obj)), zeros(D_out(obj), D_in(obj)),
      zeros(D_in(obj), D_in(obj)), Num(1)>>

empty_statistics(obj) ==
    <<zeros(D_out(obj), D_out(obj)), zeros(D_out(obj), D_in(obj)),
      zeros(D_in(obj), D_in(obj)), Num(0)>>

AddStats(s, t) ==
    <<MatAdd(s[1], t[1]), MatAdd(s[2], t[2]), MatAdd(s[3], t[3]), XAdd(s[4], t[4])>>

\* the else branch of _get_statistics: one matrix
get_statistics_matrix(obj, data) ==
    LET d == take(data, good_rows(data, Len(data)))
    IN  assemble(obj, d, ones(Len(d)), Num(Len(d)))

\* sum(generator, start)
RECURSIVE sum(_, _, _)
sum(obj, items, start) ==
    IF items = <<>> THEN start
    ELSE AddStats(sum(obj, SubSeq(items, 1, Len(items) - 1), start),
                  get_statistics_matrix(obj, items[Len(items)]))

get_statistics(obj, data) ==
    IF data.isList
    THEN sum(obj, data.items, empty_statistics(obj))
    ELSE get_statistics_matrix(obj, data.items[1])

get_weighted_statistics(obj, data, weights) ==
    IF data.isList
    THEN sum(obj, data.items, empty_statistics(obj))
    ELSE LET gi == good_rows(data.items[1], Len(data.items[1]))
             d  == take(data.items[1], gi)
             wt == take(weights.items[1], gi)
         IN  assemble(obj, d, wt, VSum(wt))

\* lines 178-180 of max_likelihood: which statistics a call uses
statistics_of(obj, data, weights, stats) ==
    IF stats # None THEN stats
    ELSE IF weights.items = <<>> /\ ~ weights.isList THEN get_statistics(obj, data)
    ELSE get_weighted_statistics(obj, data, weights)

-----------------------------------------------------------------------------
(* The object and the inputs the checks enumerate.                         *)

Object(cls, affine, A, sigma) ==
    [cls |-> cls, affine |-> affine, A |-> A, sigma |-> sigma,
     broken |-> FALSE, natural_hypparam |-> None,
     nu_0 |-> None, S_0 |-> None, M_0 |-> None, K_0 |-> None,
     a |-> None, b |-> None, blocksizes |-> None, starts |-> None, stops |-> None,
     h_0 |-> None, J_0 |-> None, niter |-> None]

AllSeqs(S, n) == UNION {[1..k -> S] : k \in 0..n}

\* rows <<x, y>>: one input and one output coordinate
FiniteCoords == {Num(0), Num(1)}
RowPool == {<<x, y>> : x \in FiniteCoords \cup {NaN}, y \in FiniteCoords \cup {NaN}}
\* the rows of the datasets of a list: the finite ones and one with a missing input
ListRowPool == {<<x, y>> : x \in FiniteCoords, y \in FiniteCoords} \cup {<<NaN, Num(1)>>}
MissingCoords == {Num(0), Num(1), NaN, PInf, NInf}
MissingRowPool == {<<x, y>> : x \in MissingCoords, y \in MissingCoords}
WeightPool == {Num(1), Num(2)}

\* the ways to cut a sequence of len rows into k consecutive datasets
Cuts(k, len) ==
    IF k = 0 THEN (IF len = 0 THEN {<<>>} ELSE {})
    ELSE {c \in [1..k -> 0..len] :
            /\ c[k] = len
            /\ \A i \in 1..(k - 1) : c[i] <= c[i + 1]}

SplitAt(r, c) ==
    V([i \in 1..Len(c) |-> SubSeq(r, (IF i = 1 THEN 0 ELSE c[i - 1]) + 1, c[i])])

RECURSIVE Concat(_)
Concat(items) ==
    IF items = <<>> THEN <<>>
    ELSE Concat(SubSeq(items, 1, Len(items) - 1)) \o items[Len(items)]

Reverse(items) == V([i \in 1..Len(items) |-> items[Len(items) + 1 - i]])

\* a model whose A has one output row and one input column (two when affine)
StatsObject(aff) ==
    Object("Regression", aff, zeros(1, IF aff THEN 2 ELSE 1), <<<<Num(1)>>>>)

Args(data, weights, stats) == [data |-> data, weights |-> weights, stats |-> stats]
ListOf(items) == [isList |-> TRUE, items |-> items]
Matrix(m) == [isList |-> FALSE, items |-> <<m>>]
\* a data or weights argument that is None
NoArg == [isList |-> FALSE, items |-> <<>>]

-----------------------------------------------------------------------------
(* The statistics computation as a step: lines 178-180.                    *)

ComputeStatistics ==
    /\ pc = "args"
    /\ out' = statistics_of(self, inp.data, inp.weights, inp.stats)
    /\ pc' = "returned"
    /\ UNCHANGED <<inp, self, call, hist>>

\* unweighted statistics of lists of datasets
InitLists ==
    /\ \E aff \in BOOLEAN : self = StatsObject(aff)
    /\ \E r \in AllSeqs(ListRowPool, MaxRows) : \E k \in 0..MaxDatasets :
         \E c \in Cuts(k, Len(r)) :
            inp = Args(ListOf(SplitAt(r, c)), NoArg, None)
    /\ out = None /\ pc = "args" /\ call = None /\ hist = None

SpecLists == InitLists /\ [][ComputeStatistics]_vars

\* statistics of one matrix with missing and infinite coordinates
InitMissing ==
    /\ \E aff \in BOOLEAN : self = StatsObject(aff)
    /\ \E r \in AllSeqs(MissingRowPool, MaxRowsMissing) :
         \E w \in [1..Len(r) -> WeightPool] : \E weighted \in BOOLEAN :
            inp = Args(Matrix(r), IF weighted THEN Matrix(w) ELSE NoArg, None)
    /\ out = None /\ pc = "args" /\ call = None /\ hist = None

SpecMissing == InitMissing /\ [][ComputeStatistics]_vars

\* weighted statistics of a matrix or of a list of matrices
InitWeighted ==
    /\ \E aff \in BOOLEAN : self = StatsObject(aff)
    /\ \E r \in AllSeqs(RowPool, MaxRows) : \E w \in [1..Len(r) -> WeightPool] :
         \/ inp = Args(Matrix(r), Matrix(w), None)
         \/ \E k \in 0..MaxDatasets : \E c \in Cuts(k, Len(r)) :
              inp = Args(ListOf(SplitAt(r, c)), ListOf(SplitAt(w, c)), None)
    /\ out = None /\ pc = "args" /\ call = None /\ hist = None

SpecWeighted == InitWeighted /\ [][ComputeStatistics]_vars

-----------------------------------------------------------------------------
(* Reference statistics, row by row: each kept row <<x, y>> with weight wt *)
(* adds wt*y*y', wt*y*x', wt*x*x' and wt, where x carries a constant 1     *)
(* as its last coordinate when the model is affine.                        *)

RowStatistics(obj, row, wt) ==
    LET w == Width(obj)
        D == D_out(obj)
        x == SubSeq(row, 1, w - D) \o (IF obj.affine THEN <<Num(1)>> ELSE <<>>)
        y == SubSeq(row, w - D + 1, w)
    IN  <<V([i \in 1..D |-> V([j \in 1..D |-> XMul(wt, XMul(y[i], y[j]))])]),
          V([i \in 1..D |-> V([j \in 1..Len(x) |-> XMul(wt, XMul(y[i], x[j]))])]),
          V([i \in 1..Len(x) |-> V([j \in 1..Len(x) |-> XMul(wt, XMul(x[i], x[j]))])]),
          wt>>

NoNaN(row) == \A j \in 1..Len(row) : row[j] # NaN
AllFinite(row) == \A j \in 1..Len(row) : IsFin(row[j])

RECURSIVE RefStatistics(_, _, _, _, _)
RefStatistics(obj, rows, wts, k, finiteOnly) ==
    IF k = 0
    THEN <<zeros(1, 1), zeros(1, IF obj.affine THEN 2 ELSE 1),
           zeros(IF obj.affine THEN 2 ELSE 1, IF obj.affine THEN 2 ELSE 1), Num(0)>>
    ELSE LET rest == RefStatistics(obj, rows, wts, k - 1, finiteOnly)
             kept == IF finiteOnly THEN AllFinite(rows[k]) ELSE NoNaN(rows[k])
         IN  IF kept THEN AddStats(rest, RowStatistics(obj, rows[k], wts[k])) ELSE rest

TheRows == Concat(inp.data.items)
TheWeights == IF inp.weights = NoArg THEN ones(Len(TheRows)) ELSE Concat(inp.weights.items)

C5_ListEqualsConcatenation ==
    pc = "returned" =>
        /\ out = get_statistics_matrix(self, TheRows)
        /\ out = get_statistics(self, ListOf(Reverse(inp.data.items)))
        /\ inp.data.items = <<>> =>
              /\ out[4] = Num(0)
              /\ \A m \in 1..3 : \A i \in 1..Len(out[m]) : \A j \in 1..Len(out[m][i]) :
                    out[m][i][j] = Num(0)
              /\ NRows(out[1]) = D_out(self) /\ NCols(out[1]) = D_out(self)
              /\ NRows(out[2]) = D_out(self) /\ NCols(out[2]) = D_in(self)
              /\ NRows(out[3]) = D_in(self) /\ NCols(out[3]) = D_in(self)

C5_Witness ==
    /\ pc = "returned"
    /\ self.affine
    /\ Len(inp.data.items) = 2
    /\ inp.data.items[1] = <<>>
    /\ Len(inp.data.items[2]) = 3
    /\ out[4] = Num(2)
    /\ out[3] = <<<<Num(1), Num(1)>>, <<Num(1), Num(2)>>>>

\* C6: whenever weights are supplied, every kept row is weighted by its own weight
\* and n is the sum of the kept rows' weights, for one matrix with one weight
\* vector and for a list of matrices with parallel weights.
C6_WeightsEveryRow ==
    (pc = "returned" /\ inp.weights # NoArg) =>
        out = RefStatistics(self, TheRows, TheWeights, Len(TheRows), FALSE)

-----------------------------------------------------------------------------
(* Linear algebra on 1x1 and 2x2 matrices.                                 *)

det(M) ==
    IF Len(M) = 1 THEN M[1][1]
    ELSE XSub(XMul(M[1][1], M[2][2]), XMul(M[1][2], M[2][1]))

singular(M) == det(M) = Num(0)

\* np.linalg.inv, for a matrix that is not singular
inv(M) ==
    IF Len(M) = 1 THEN <<<<XDiv(Num(1), M[1][1])>>>>
    ELSE LET dt == det(M)
         IN  <<<<XDiv(M[2][2], dt), XDiv(XNeg(M[1][2]), dt)>>,
               <<XDiv(XNeg(M[2][1]), dt), XDiv(M[1][1], dt)>>>>

\* util.general.inv_psd
inv_psd(M) == inv(M)

\* np.linalg.solve(X, B), for X that is not singular
solve(X, B) == dot(inv(X), B)

\* np.all(np.linalg.eigvalsh(M) > 0): eigvalsh reads the lower triangle
eigvalsh_positive(M) ==
    IF Len(M) = 1 THEN XLt(Num(0), M[1][1])
    ELSE /\ XLt(Num(0), M[1][1])
         /\ XLt(Num(0), XSub(XMul(M[1][1], M[2][2]), XMul(M[2][1], M[2][1])))

\* the same test for M + eps*I with eps = 10^-8 or 10^-10: for entries whose
\* numerators and denominators stay below 10^3 (as all here do) the eigenvalues
\* of M + eps*I are positive exactly when those of M are not negative
eigvalsh_nonnegative(M) ==
    IF Len(M) = 1 THEN ~ XLt(M[1][1], Num(0))
    ELSE /\ ~ XLt(M[1][1], Num(0))
         /\ ~ XLt(M[2][2], Num(0))
         /\ ~ XLt(XSub(XMul(M[1][1], M[2][2]), XMul(M[2][1], M[2][1])), Num(0))

\* a matrix with pad*I added on its diagonal, pad = 10^-KPad or 10^-SigmaPad;
\* exp = 0 is no padding
KPad == 8
SigmaPad == 10
Padded(M, exp) == [base |-> M, exp |-> exp]
Plain(M) == Padded(M, 0)

positive_definite(P) ==
    IF P.exp = 0 THEN eigvalsh_positive(P.base) ELSE eigvalsh_nonnegative(P.base)

\* np.allclose(M, M.T) on exact entries
symmetric(P) == P.base = T(P.base)

-----------------------------------------------------------------------------
(* Converting between natural and standard parameters.                     *)

standard_to_natural(nu, S, M, K) ==
    LET Kinv == inv_psd(K)
        A    == MatAdd(S, dot(dot(M, Kinv), T(M)))
        B    == dot(M, Kinv)
        C    == Kinv
        d    == nu
    IN  <<A, B, C, d>>

Raise(what) == [raised |-> what, val |-> None]
Return(val) == [raised |-> "", val |-> val]

natural_to_standard_bad(natparam) ==
    LET A    == natparam[1]
        B    == natparam[2]
        C    == natparam[3]
        d    == natparam[4]
    IN  IF singular(C) THEN Raise("LinAlgError")
        ELSE LET K == inv_psd(C)
                 M == B
                 S == MatSub(A, dot(dot(B, K), T(B)))
             IN  IF eigvalsh_positive(S) /\ eigvalsh_nonnegative(K)
                 THEN Return(<<d, S, M, Padded(K, KPad)>>)
                 ELSE Raise("AssertionError")

natural_to_standard(natparam) ==
    LET A    == natparam[1]
        B    == natparam[2]
        C    == natparam[3]
        d    == natparam[4]
    IN  IF singular(C) THEN Raise("LinAlgError")
        ELSE LET K == inv_psd(C)
                 M == dot(B, K)
                 S == MatSub(A, dot(dot(B, K), T(B)))
             IN  IF eigvalsh_positive(S) /\ eigvalsh_nonnegative(K)
                 THEN Return(<<d, S, M, Padded(K, KPad)>>)
                 ELSE Raise("AssertionError")

-----------------------------------------------------------------------------
(* The round trip of the hyperparameters, as two steps.                    *)

MaxHyper == 2

OffDiagonal == {Num(-1), Num(0), Num(1)}
Diagonal == {Num(i) : i \in 1..MaxHyper}

\* symmetric positive definite matrices of size n
SPD(n) ==
    IF n = 1 THEN {<<<<k>>>> : k \in Diagonal}
    ELSE {M \in {<<<<p, q>>, <<q, r>>>> : p \in Diagonal, q \in OffDiagonal, r \in Diagonal} :
            eigvalsh_positive(M)}

Matrices(r, c) ==
    IF r = 2 /\ c = 2
    THEN {<<<<Num(1), Num(-1)>>, row>> :
            row \in {<<Num(0), Num(1)>>, <<Num(1), Num(1)>>, <<Num(-1), Num(0)>>}}
    ELSE [1..r -> [1..c -> OffDiagonal]]

ToNatural ==
    /\ pc = "standard"
    /\ out' = standard_to_natural(inp[1], inp[2], inp[3], inp[4])
    /\ pc' = "natural"
    /\ UNCHANGED <<inp, self, call, hist>>

ToStandard ==
    /\ pc = "natural"
    /\ out' = natural_to_standard(out)
    /\ pc' = "returned"
    /\ UNCHANGED <<inp, self, call, hist>>

InitConvert ==
    /\ \E Do \in 1..2 : \E Di \in 1..2 :
         \E nu \in 1..MaxHyper : \E S \in SPD(Do) : \E M \in Matrices(Do, Di) :
           \E K \in SPD(Di) :
             inp = <<Num(nu), S, M, K>>
    /\ out = None /\ pc = "standard" /\ call = None /\ hist = None
    /\ self = None

SpecConvert == InitConvert /\ [][ToNatural \/ ToStandard]_vars

\* C7: for every valid (nu, S, M, K) with S and K symmetric positive definite,
\* natural_to_standard(standard_to_natural(nu, S, M, K)) raises nothing and gives
\* back nu, S and M, and K with the 1e-8 padding added to its diagonal.
C7_RoundTrip ==
    pc = "returned" =>
        /\ out.raised = ""
        /\ out.val[1] = inp[1]
        /\ out.val[2] = inp[2]
        /\ out.val[3] = inp[3]
        /\ out.val[4] = Padded(inp[4], KPad)

C7_Witness ==
    /\ pc = "returned"
    /\ out.raised = ""
    /\ Len(inp[4]) = 2 /\ inp[4][1][2] = Num(1)
    /\ Len(inp[2]) = 2 /\ inp[2][2][1] = Num(-1)
    /\ inp[3] = <<<<Num(1), Num(-1)>>, <<Num(0), Num(1)>>>>

-----------------------------------------------------------------------------
(* The objects: construction.                                              *)

NoneP == Padded(None, 0)

\* what sample_mniw, sample_gaussian and sample_invwishart can return
APool(Di) == [1..1 -> [1..Di -> {Num(0), Num(1)}]]
SigmaPool == {Plain(<<<<Num(1)>>>>), Plain(<<<<Num(2)>>>>)}

\* the prior hyperparameters the objects are built with
HyperNu == Num(2)
HyperS == <<<<Num(1)>>>>
HyperM(Di) == zeros(1, Di)
HyperK(Di) == eye(Di)

has_shape(obj) == obj.A # None \/ obj.natural_hypparam # None

\* Regression.resample, lines 170-173: the posterior parameters handed to
\* sample_mniw, or the exception raised before anything is assigned
regression_posterior(obj, data, stats) ==
    IF obj.natural_hypparam = None THEN Raise("AttributeError")
    ELSE natural_to_standard(
            AddStats(obj.natural_hypparam, statistics_of(obj, data, NoArg, stats)))

History(op) ==
    [op |-> op, raised |-> "", lastA |-> 0, lastSigma |-> 0, degenerate |-> FALSE,
     given |-> <<>>, hadData |-> FALSE, sweeps |-> 0, nstats |-> 0,
     condSigma |-> NoneP, condA |-> None,
     first |-> "", draws |-> 0, ks |-> 0, firstNat |-> None, entry |-> None,
     drawnWith |-> None, entryA |-> self.A, entrySigma |-> self.sigma]

\* Regression.__init__, lines 15-30
RegressionInit(affine, A, sigma, haveHypers) ==
    LET Di  == IF affine THEN 2 ELSE 1
        o1  == Object("Regression", affine, A, sigma)
        o2  == IF haveHypers
               THEN [o1 EXCEPT !.natural_hypparam =
                        standard_to_natural(HyperNu, HyperS, HyperM(Di), HyperK(Di))]
               ELSE o1
    IN  IF A = None /\ sigma = NoneP /\ haveHypers
        THEN /\ regression_posterior(o2, ListOf(<<>>), None).raised = ""
             /\ \E dA \in APool(Di) : \E dS \in SigmaPool :
                    self = [o2 EXCEPT !.A = dA, !.sigma = dS]
        ELSE self = o2

InitRegression ==
    /\ \E affine \in BOOLEAN : \E haveHypers \in BOOLEAN :
         \/ RegressionInit(affine, None, NoneP, haveHypers)
         \/ \E A \in APool(IF affine THEN 2 ELSE 1) : \E sigma \in SigmaPool :
              RegressionInit(affine, A, sigma, haveHypers)
    /\ inp = None /\ out = None /\ pc = "returned" /\ call = None
    /\ hist = History("init")

-----------------------------------------------------------------------------
(* The parameters property, lines 36-40 and 307-312.                       *)

SetParameters ==
    /\ pc = "idle"
    /\ self.cls \in {"Regression", "RegressionNonconj"}
    /\ has_shape(self)
    /\ \E A \in APool(D_in(self)) : \E sigma \in SigmaPool :
         self' = [self EXCEPT !.A = A, !.sigma = sigma]
    /\ hist' = History("parameters")
    /\ pc' = "returned"
    /\ UNCHANGED <<inp, out, call>>

-----------------------------------------------------------------------------
(* Regression.resample, lines 170-173.                                     *)

\* the data arguments of the calls: none, one row, a row with a zero input, two
\* rows sharing their input, three rows in general position, only a NaN row
\* three rows in general position
GeneralData ==
    Matrix(<<<<Num(0), Num(0)>>, <<Num(1), Num(1)>>, <<Num(1), Num(0)>>>>)

CallData ==
    {ListOf(<<>>),
     Matrix(<<<<Num(1), Num(1)>>>>),
     Matrix(<<<<Num(1), Num(0)>>, <<Num(1), Num(1)>>>>),
     GeneralData,
     Matrix(<<<<NaN, Num(1)>>>>),
     ListOf(<<<<<<Num(1), Num(1)>>>>, <<<<Num(0), Num(0)>>, <<Num(1), Num(0)>>>>>>)}

\* statistics handed in by the caller: of no observation, and of second moments
\* that no dataset has (yyT = 0 with yxT # 0)
CallStats(Di) ==
    {<<zeros(1, 1), zeros(1, Di), zeros(Di, Di), Num(0)>>,
     <<zeros(1, 1), V([i \in 1..1 |-> V([j \in 1..Di |-> Num(1)])]), eye(Di), Num(1)>>}

CallArgs(obj) ==
    {Args(d, NoArg, None) : d \in (IF has_shape(obj) THEN CallData ELSE {})}
    \cup {Args(NoArg, NoArg, st) :
            st \in CallStats(IF obj.affine THEN 2 ELSE 1)}

\* the arguments of the max_likelihood calls: the subclasses are called with no
\* data, with the rows in general position and with the caller's statistics
FitArgs(obj) ==
    LET general == {GeneralData}
        weighted == {Args(d, [d EXCEPT !.items = <<V([i \in 1..Len(d.items[1]) |-> Num(2)])>>], None) :
                        d \in {e \in general : has_shape(obj)}}
    IN  IF obj.cls = "Regression"
        THEN CallArgs(obj) \cup weighted
        ELSE {e \in CallArgs(obj) :
                \/ e.data \in general \cup {ListOf(<<>>)}
                \/ e.stats # None /\ e.stats[4] # Num(0)}

RegressionResample ==
    /\ pc = "idle"
    /\ self.cls = "Regression"
    /\ \E args \in CallArgs(self) \cup {Args(ListOf(<<>>), NoArg, None)} :
         LET post == regression_posterior(self, args.data, args.stats)
         IN  IF post.raised # ""
             THEN /\ self' = self
                  /\ hist' = [History("resample") EXCEPT !.raised = post.raised]
             ELSE /\ \E A \in APool(NCols(post.val[3])) : \E sigma \in SigmaPool :
                       self' = [self EXCEPT !.A = A, !.sigma = sigma]
                  /\ hist' = [History("resample") EXCEPT !.lastA = 1, !.lastSigma = 1,
                                                          !.drawnWith = post.val]
    /\ pc' = "returned"
    /\ UNCHANGED <<inp, out, call>>

-----------------------------------------------------------------------------
(* Regression.max_likelihood, lines 177-201, inherited by the subclasses.  *)

symmetrize(A) == MatDivScalar(MatAdd(A, T(A)), Num(2))

\* lines 182-196: the object after the assignments, and the attributes assigned
fit_validating(obj, stats) ==
    LET yyT == stats[1]
        yxT == stats[2]
        xxT == stats[3]
        n   == stats[4]
    IN  IF XLt(Num(0), n) /\ ~ singular(xxT)
        THEN LET A  == T(solve(xxT, T(yxT)))
                 sg == Padded(symmetrize(MatDivScalar(MatSub(yyT, dot(A, T(yxT))), n)),
                              SigmaPad)
             IN  IF positive_definite(sg)
                 THEN [obj |-> [obj EXCEPT !.A = A, !.sigma = sg], wrote |-> {"A", "sigma"}]
                 ELSE [obj |-> [obj EXCEPT !.A = A], wrote |-> {"A"}]
        ELSE [obj |-> [obj EXCEPT !.broken = TRUE], wrote |-> {}]

fit(obj, stats) ==
    LET yyT == stats[1]
        yxT == stats[2]
        xxT == stats[3]
        n   == stats[4]
    IN  IF XLt(Num(0), n) /\ ~ singular(xxT)
        THEN LET A  == T(solve(xxT, T(yxT)))
                 sg == MatDivScalar(MatSub(yyT, dot(A, T(yxT))), n)
             IN  [obj   |-> [obj EXCEPT !.A = A, !.sigma = Padded(symmetrize(sg), SigmaPad)],
                  wrote |-> {"A", "sigma"}]
        ELSE [obj |-> [obj EXCEPT !.broken = TRUE], wrote |-> {}]

\* lines 198-199: the assertions on self.sigma
postcondition(obj) ==
    IF obj.sigma = NoneP THEN "AttributeError"
    ELSE IF symmetric(obj.sigma) /\ positive_definite(obj.sigma) THEN ""
    ELSE "AssertionError"

MaxLikelihood ==
    /\ pc = "idle"
    /\ \E args \in FitArgs(self) :
         LET stats == statistics_of(self, args.data, args.weights, args.stats)
             new   == fit(self, stats)
         IN  /\ self' = new.obj
             /\ hist' = [History("max_likelihood") EXCEPT
                           !.raised = postcondition(new.obj),
                           !.degenerate = ~ XLt(Num(0), stats[4]) \/ singular(stats[3]),
                           !.lastA = IF "A" \in new.wrote THEN 1 ELSE 0,
                           !.lastSigma = IF "sigma" \in new.wrote THEN 1 ELSE 0]
    /\ pc' = "returned"
    /\ UNCHANGED <<inp, out, call>>

-----------------------------------------------------------------------------
(* RegressionNonconj, lines 204-244.                                       *)

DefaultNiter == 10
MaxNiter == 2

\* util.stats.getdatasize: the number of rows of a matrix or of a list of matrices
getdatasize(data) == Len(Concat(data.items))

\* RegressionNonconj.__init__, lines 205-219, with one input column
NonconjInit(A, sigma, niter) ==
    LET M_0     == HyperM(1)
        Sigma_0 == eye(1)
        o       == [Object("RegressionNonconj", FALSE, A, sigma) EXCEPT
                      !.h_0 = T(solve(Sigma_0, T(M_0))),
                      !.J_0 = inv(Sigma_0),
                      !.nu_0 = HyperNu,
                      !.S_0 = HyperS,
                      !.niter = niter]
    IN  IF A = None /\ sigma = NoneP
        THEN \E dA \in APool(1) : \E dS \in SigmaPool :
                self = [o EXCEPT !.A = dA, !.sigma = dS]
        ELSE self = o

InitNonconj ==
    /\ \E niter \in {DefaultNiter} \cup 0..MaxNiter :
         \/ NonconjInit(None, NoneP, niter)
         \/ \E A \in APool(1) : \E sigma \in SigmaPool : NonconjInit(A, sigma, niter)
    /\ inp = None /\ out = None /\ pc = "returned" /\ call = None
    /\ hist = History("init")

\* line 224: niter = niter if niter else self.niter
sweep_count(obj, niter) == IF niter # <<>> /\ niter[1] # 0 THEN niter[1] ELSE obj.niter

NonconjData ==
    {ListOf(<<>>),
     Matrix(<<<<Num(1), Num(0)>>, <<Num(1), Num(1)>>>>),
     ListOf(<<<<<<Num(1), Num(1)>>>>, <<<<NaN, Num(0)>>>>>>)}

\* lines 223-225 and 230
NonconjResample ==
    /\ pc = "idle"
    /\ self.cls = "RegressionNonconj"
    /\ \E data \in NonconjData : \E niter \in {<<>>} \cup {<<k>> : k \in 0..MaxNiter} :
         LET count == sweep_count(self, niter)
             h     == [History("nonconj_resample") EXCEPT
                          !.given = niter, !.hadData = getdatasize(data) > 0]
         IN  IF getdatasize(data) = 0
             THEN /\ pc' = "prior_A"
                  /\ call' = None
                  /\ hist' = h
             ELSE /\ call' = [stats |-> get_statistics(self, data), niter |-> count, itr |-> 0]
                  /\ hist' = [h EXCEPT !.nstats = 1]
                  /\ pc' = IF count > 0 THEN "sweep_A" ELSE "returned"
    /\ UNCHANGED <<inp, out, self>>

\* lines 226-227
NonconjPriorA ==
    /\ pc = "prior_A"
    /\ \E A \in APool(NCols(self.h_0)) : self' = [self EXCEPT !.A = A]
    /\ hist' = [hist EXCEPT !.lastA = 1]
    /\ pc' = "prior_sigma"
    /\ UNCHANGED <<inp, out, call>>

\* line 228
NonconjPriorSigma ==
    /\ pc = "prior_sigma"
    /\ \E sigma \in SigmaPool : self' = [self EXCEPT !.sigma = sigma]
    /\ hist' = [hist EXCEPT !.lastSigma = 1]
    /\ pc' = "returned"
    /\ UNCHANGED <<inp, out, call>>

\* _resample_A, lines 235-239, for a 1x1 sigma: J and h of the Gaussian drawn from,
\* or the exception.  A sigma of exactly 1e-10 (base 0, padded) gives J and h of
\* order 1e10, J positive definite: they are not written out.
resample_A_posterior(obj, xxT, yxT, sigma) ==
    IF sigma.base = zeros(1, 1)
    THEN (IF sigma.exp = 0 THEN Raise("LinAlgError") ELSE Return(None))
    ELSE LET sigmainv == inv(sigma.base)
             J == MatAdd(obj.J_0, MatScale(sigmainv[1][1], xxT))
             h == MatAdd(obj.h_0, dot(sigmainv, yxT))
         IN  IF eigvalsh_positive(J) THEN Return(<<J, h>>) ELSE Raise("LinAlgError")

\* _resample_sigma, lines 241-244: S and nu of the inverse Wishart drawn from
resample_sigma_posterior(obj, xxT, yxT, yyT, n, A) ==
    LET S  == MatAdd(MatSub(MatSub(MatAdd(obj.S_0, yyT), dot(yxT, T(A))), dot(A, T(yxT))),
                     dot(dot(A, xxT), T(A)))
        nu == XAdd(obj.nu_0, n)
    IN  IF eigvalsh_positive(S) THEN Return(<<S, nu>>) ELSE Raise("LinAlgError")

\* line 232
NonconjSweepA ==
    /\ pc = "sweep_A"
    /\ LET post == resample_A_posterior(self, call.stats[3], call.stats[2], self.sigma)
       IN  IF post.raised # ""
           THEN /\ hist' = [hist EXCEPT !.raised = post.raised]
                /\ pc' = "returned"
                /\ UNCHANGED self
           ELSE /\ \E A \in APool(NCols(self.h_0)) : self' = [self EXCEPT !.A = A]
                /\ hist' = [hist EXCEPT !.lastA = call.itr + 1, !.condSigma = self.sigma]
                /\ pc' = "sweep_sigma"
    /\ UNCHANGED <<inp, out, call>>

\* line 233 and the loop of line 231
NonconjSweepSigma ==
    /\ pc = "sweep_sigma"
    /\ LET post == resample_sigma_posterior(self, call.stats[3], call.stats[2],
                                            call.stats[1], call.stats[4], self.A)
       IN  IF post.raised # ""
           THEN /\ hist' = [hist EXCEPT !.raised = post.raised]
                /\ pc' = "returned"
                /\ UNCHANGED <<self, call>>
           ELSE /\ \E sigma \in SigmaPool : self' = [self EXCEPT !.sigma = sigma]
                /\ hist' = [hist EXCEPT !.lastSigma = call.itr + 1, !.condA = self.A,
                                        !.sweeps = call.itr + 1]
                /\ call' = [call EXCEPT !.itr = call.itr + 1]
                /\ pc' = IF call.itr + 1 < call.niter THEN "sweep_A" ELSE "returned"
    /\ UNCHANGED <<inp, out>>

-----------------------------------------------------------------------------
(* ARDRegression, lines 247-312, with one input column and the affine one.  *)

RECURSIVE repeat(_, _)
repeat(v, counts) ==
    IF v = <<>> THEN <<>>
    ELSE repeat(SubSeq(v, 1, Len(v) - 1), SubSeq(counts, 1, Len(counts) - 1))
         \o V([i \in 1..counts[Len(counts)] |-> v[Len(v)]])

diag(v) == V([i \in 1..Len(v) |-> V([j \in 1..Len(v) |-> IF i = j THEN v[i] ELSE Num(0)])])

\* util.general.cumsum
cumsum(v, strict) ==
    V([i \in 1..Len(v) |->
        VSum(V([j \in 1..(IF strict THEN i - 1 ELSE i) |-> Num(v[j])]))[1]])

\* what 1/np.random.gamma can return for one block
GammaPool == {Num(1), Num(2)}

\* what sample_mniw can return when there are two input columns
ARDDraws ==
    {<<<<<<Num(0), Num(1)>>>>, Plain(<<<<Num(1)>>>>)>>,
     <<<<<<Num(1), Num(1)>>>>, Plain(<<<<Num(2)>>>>)>>}
KsPool(obj) == [1..Len(obj.blocksizes) -> GammaPool]

\* resample_K, lines 289-295: the shape and rate of the Gamma drawn from
resample_K_gamma(obj, dg) ==
    IF dg = None THEN <<obj.a, obj.b>>
    ELSE LET sums == V([k \in 1..Len(obj.blocksizes) |->
                        VSum(SubSeq(dg, obj.starts[k] + 1, obj.stops[k]))])
         IN  <<V([k \in 1..Len(obj.a) |->
                  XAdd(obj.a[k], XDiv(Num(D_out(obj) * obj.blocksizes[k]), Num(2)))]),
               V([k \in 1..Len(obj.b) |-> XAdd(obj.b[k], sums[k])])>>

\* resample_K, lines 297-301, for the drawn ks
resample_K(obj, ks) ==
    LET K_0 == diag(repeat(ks, obj.blocksizes))
    IN  [obj EXCEPT !.K_0 = K_0,
                    !.natural_hypparam = standard_to_natural(obj.nu_0, obj.S_0, obj.M_0, K_0)]

\* the parameters setter, lines 307-312
set_parameters_ard(obj, A, sigma, K_0) ==
    [obj EXCEPT !.A = A, !.sigma = sigma, !.K_0 = K_0]

\* ARDRegression.__init__, lines 248-271, and the resample() that
\* Regression.__init__ ends with when neither A nor sigma is given
ARDInit(blocksizes, K_0, A, sigma, niter) ==
    LET o1 == [Object("ARDRegression", TRUE, None, NoneP) EXCEPT
                  !.niter = niter,
                  !.blocksizes = blocksizes,
                  !.starts = cumsum(blocksizes, TRUE),
                  !.stops = cumsum(blocksizes, FALSE),
                  !.a = V([k \in 1..Len(blocksizes) |-> Num(1)]),
                  !.b = V([k \in 1..Len(blocksizes) |-> Num(1)]),
                  !.nu_0 = HyperNu, !.S_0 = HyperS, !.M_0 = HyperM(2)]
    IN  \E ks1 \in KsPool(o1) : \E ks2 \in KsPool(o1) :
          LET o2 == IF K_0 = None THEN resample_K(o1, ks1) ELSE [o1 EXCEPT !.K_0 = K_0]
              o3 == [o2 EXCEPT !.A = A, !.sigma = sigma,
                               !.natural_hypparam =
                                   standard_to_natural(HyperNu, HyperS, HyperM(2), o2.K_0)]
          IN  IF A = None /\ sigma = NoneP
              THEN LET o4 == resample_K(o3, ks2)
                   IN  /\ regression_posterior(o4, ListOf(<<>>), None).raised = ""
                       /\ \E d \in ARDDraws : self = [o4 EXCEPT !.A = d[1], !.sigma = d[2]]
              ELSE self = o3

InitARD ==
    /\ \E blocksizes \in {<<1, 1>>, <<2>>} : \E niter \in {MaxNiter} :
         \E K_0 \in {None, diag(<<Num(2), Num(2)>>)} :
            \/ ARDInit(blocksizes, K_0, None, NoneP, niter)
            \/ \E d \in ARDDraws : ARDInit(blocksizes, K_0, d[1], d[2], niter)
    /\ inp = None /\ out = None /\ pc = "returned" /\ call = None
    /\ hist = History("init")

SetParametersARD ==
    /\ pc = "idle"
    /\ self.cls = "ARDRegression"
    /\ \E d \in ARDDraws : \E ks \in KsPool(self) :
         self' = set_parameters_ard(self, d[1], d[2], diag(repeat(ks, self.blocksizes)))
    /\ hist' = History("parameters")
    /\ pc' = "returned"
    /\ UNCHANGED <<inp, out, call>>

\* a call of resample_K() by itself
ARDResampleK ==
    /\ pc = "idle"
    /\ self.cls = "ARDRegression"
    /\ \E ks \in KsPool(self) : self' = resample_K(self, ks)
    /\ hist' = [History("resample_K") EXCEPT !.ks = 1, !.first = "K"]
    /\ pc' = "returned"
    /\ UNCHANGED <<inp, out, call>>

\* line 274: len(data) > 0 or stats is not None
have_data(data, stats) ==
    (IF data.isList THEN Len(data.items) ELSE getdatasize(data)) > 0 \/ stats # None

\* lines 274-286: what a call of resample does first
first_step_always_K(withData) == "ard_prior_K"
first_step(withData) == IF withData THEN "ard_draw" ELSE "ard_prior_K"

ARDData ==
    {Args(ListOf(<<>>), NoArg, None),
     Args(Matrix(<<<<Num(0), Num(0)>>, <<Num(1), Num(1)>>, <<Num(1), Num(0)>>>>), NoArg, None),
     Args(ListOf(<<>>), NoArg,
          <<<<<<Num(1)>>>>, <<<<Num(1), Num(1)>>>>,
            <<<<Num(1), Num(1)>>, <<Num(1), Num(2)>>>>, Num(2)>>)}

\* lines 273-275
ARDResample ==
    /\ pc = "idle"
    /\ self.cls = "ARDRegression"
    /\ self.A # None
    /\ \E args \in ARDData :
         LET withData == have_data(args.data, args.stats)
             next     == first_step(withData)
         IN  /\ call' = [stats |-> IF withData
                                   THEN statistics_of(self, args.data, NoArg, args.stats)
                                   ELSE None,
                         niter |-> self.niter, itr |-> 0]
             /\ hist' = [History("ard_resample") EXCEPT
                            !.hadData = withData, !.entry = self.natural_hypparam]
             /\ pc' = IF next = "ard_draw" /\ self.niter <= 0 THEN "returned" ELSE next
    /\ UNCHANGED <<inp, out, self>>

\* line 285
ARDPriorK ==
    /\ pc = "ard_prior_K"
    /\ \E ks \in KsPool(self) : self' = resample_K(self, ks)
    /\ hist' = [hist EXCEPT !.ks = hist.ks + 1,
                            !.first = IF hist.first = "" THEN "K" ELSE hist.first]
    /\ pc' = "ard_prior_draw"
    /\ UNCHANGED <<inp, out, call>>

\* line 286: Regression.resample()
ARDPriorDraw ==
    /\ pc = "ard_prior_draw"
    /\ LET post == regression_posterior(self, ListOf(<<>>), None)
       IN  IF post.raised # ""
           THEN /\ hist' = [hist EXCEPT !.raised = post.raised]
                /\ UNCHANGED self
           ELSE /\ \E d \in ARDDraws : self' = [self EXCEPT !.A = d[1], !.sigma = d[2]]
                /\ hist' = [hist EXCEPT
                              !.lastA = 1, !.lastSigma = 1, !.draws = hist.draws + 1,
                              !.first = IF hist.first = "" THEN "draw" ELSE hist.first,
                              !.firstNat = IF hist.draws = 0 THEN self.natural_hypparam
                                           ELSE hist.firstNat]
    /\ pc' = "returned"
    /\ UNCHANGED <<inp, out, call>>

\* lines 277-279
ARDSweepDraw ==
    /\ pc = "ard_draw"
    /\ LET post == natural_to_standard(AddStats(self.natural_hypparam, call.stats))
       IN  IF post.raised # ""
           THEN /\ hist' = [hist EXCEPT !.raised = post.raised]
                /\ pc' = "returned"
                /\ UNCHANGED self
           ELSE /\ \E d \in ARDDraws : self' = [self EXCEPT !.A = d[1], !.sigma = d[2]]
                /\ hist' = [hist EXCEPT
                              !.lastA = call.itr + 1, !.lastSigma = call.itr + 1,
                              !.draws = hist.draws + 1,
                              !.first = IF hist.first = "" THEN "draw" ELSE hist.first,
                              !.firstNat = IF hist.draws = 0 THEN self.natural_hypparam
                                           ELSE hist.firstNat]
                /\ pc' = "ard_K"
    /\ UNCHANGED <<inp, out, call>>

\* lines 281-283: 1/2 einsum('ij,ij->j', mat, solve(sigma, mat))
residual_diag(obj) ==
    LET mat == MatSub(obj.M_0, obj.A)
        sol == solve(obj.sigma.base, mat)
    IN  V([j \in 1..NCols(mat) |->
            XDiv(VSum(V([i \in 1..NRows(mat) |-> XMul(mat[i][j], sol[i][j])])), Num(2))])

\* lines 281-283 and the loop of line 276
ARDSweepK ==
    /\ pc = "ard_K"
    /\ \E ks \in KsPool(self) : self' = resample_K(self, ks)
    /\ hist' = [hist EXCEPT !.ks = hist.ks + 1,
                            !.drawnWith = resample_K_gamma(self, residual_diag(self))]
    /\ call' = [call EXCEPT !.itr = call.itr + 1]
    /\ pc' = IF call.itr + 1 < call.niter THEN "ard_draw" ELSE "returned"
    /\ UNCHANGED <<inp, out>>

-----------------------------------------------------------------------------
(* The caller, between two calls.                                          *)

Forget ==
    /\ pc = "returned"
    /\ pc' = "idle"
    /\ hist' = History("idle")
    /\ call' = None
    /\ UNCHANGED <<inp, out, self>>

Init == InitRegression \/ InitNonconj \/ InitARD

Next ==
    \/ SetParameters \/ RegressionResample \/ MaxLikelihood
    \/ NonconjResample \/ NonconjPriorA \/ NonconjPriorSigma
    \/ NonconjSweepA \/ NonconjSweepSigma
    \/ SetParametersARD \/ ARDResampleK \/ ARDResample
    \/ ARDPriorK \/ ARDPriorDraw \/ ARDSweepDraw \/ ARDSweepK
    \/ Forget

Spec == Init /\ [][Next]_vars

-----------------------------------------------------------------------------
(* The estimation and resampling calls, as their caller sees them.         *)

Calls == {"resample", "max_likelihood", "nonconj_resample", "ard_resample"}

\* C1: every max_likelihood call whose statistics have n = 0 or a singular xxT
\* returns without raising, sets the broken flag, and leaves A and sigma as
\* they were before the call.
C1_DegenerateFitOnlyFlags ==
    pc = "returned" /\ hist.op = "max_likelihood" /\ hist.degenerate
        => /\ hist.raised = ""
           /\ self.broken
           /\ self.A = hist.entryA
           /\ self.sigma = hist.entrySigma

\* C2: a sigma held by the model is always symmetric and positive definite, and a
\* max_likelihood call that ends by raising has flagged the model broken and
\* left the previous sigma in place.
C2_SigmaStaysValid ==
    /\ self.sigma # NoneP => symmetric(self.sigma) /\ positive_definite(self.sigma)
    /\ pc = "returned" /\ hist.op = "max_likelihood" /\ hist.raised # ""
          => self.broken /\ self.sigma = hist.entrySigma

\* C3: when a resample or max_likelihood call of any of the three classes returns
\* or raises, A and sigma were last written by the same update step of the call,
\* or neither was written and both hold their values from before the call.
C3_WrittenTogether ==
    pc = "returned" /\ hist.op \in Calls
        => /\ hist.lastA = hist.lastSigma
           /\ hist.lastA = 0 => self.A = hist.entryA /\ self.sigma = hist.entrySigma

C3_Witness ==
    /\ pc = "returned" /\ hist.op = "max_likelihood" /\ self.cls = "ARDRegression"
    /\ hist.lastA = 1 /\ hist.lastSigma = 1
    /\ self.A # hist.entryA /\ self.sigma # hist.entrySigma

\* C8: RegressionNonconj.resample with data computes the statistics once and runs
\* as many sweeps as the call asks for, or as the model is configured for when
\* the call gives no count; in a sweep A is drawn given the sigma of the sweep
\* before and sigma given the A just drawn.  Without data there is no sweep and
\* A and sigma are drawn once each.
C8_SweepsAsRequested ==
    /\ pc = "sweep_sigma" => hist.condSigma = self.sigma
    /\ pc = "returned" /\ hist.op = "nonconj_resample" /\ hist.raised = ""
          => IF hist.hadData
             THEN /\ hist.nstats = 1
                  /\ hist.sweeps = (IF hist.given # <<>> THEN hist.given[1] ELSE self.niter)
                  /\ hist.sweeps > 0 => hist.condA = self.A
             ELSE hist.sweeps = 0 /\ hist.lastA = 1 /\ hist.lastSigma = 1

\* C9 as amended: a call of ARDRegression.resample without data redraws K_0 and
\* then draws (A, sigma) once under it; a call with data or statistics draws
\* (A, sigma) first, under the natural hyperparameters left from before the
\* call, and redraws K_0 after each of its niter draws.
C9_RedrawnAfterEachDraw ==
    pc = "returned" /\ hist.op = "ard_resample" /\ hist.raised = ""
        => IF hist.hadData
           THEN /\ hist.draws = self.niter /\ hist.ks = hist.draws
                /\ hist.draws > 0 => hist.first = "draw" /\ hist.firstNat = hist.entry
           ELSE /\ hist.draws = 1 /\ hist.ks = 1 /\ hist.first = "K"
                /\ hist.firstNat = self.natural_hypparam

C9_Witness ==
    /\ pc = "returned" /\ hist.op = "ard_resample" /\ hist.raised = ""
    /\ hist.hadData /\ hist.draws = MaxNiter /\ hist.first = "draw"
    /\ hist.entry # self.natural_hypparam

\* C9: in every call of ARDRegression.resample K_0 is redrawn before the first
\* (A, sigma) draw, so that no draw uses the hyperparameters left from before.
C9_RedrawnBeforeFirstDraw ==
    pc = "returned" /\ hist.op = "ard_resample" /\ hist.draws > 0
        => hist.first = "K"

\* C10: the natural hyperparameters of an ARDRegression are always the conversion
\* of (nu_0, S_0, M_0, K_0) for the K_0 the model holds.
C10_NaturalFollowsK ==
    self.cls = "ARDRegression"
        => self.natural_hypparam =
               standard_to_natural(self.nu_0, self.S_0, self.M_0, self.K_0)

====
